---- MODULE Spec2Model ----
(***************************************************************************)
(* check-gits (src/app/src/main.rs): scans the entries of a directory,     *)
(* fetches the qualifying remotes of every repository found and compares   *)
(* every local branch with its upstream.  The model follows main() and     *)
(* the handle_entry closure step by step; the git2 backend and the file    *)
(* system are the environment, whose answers are drawn with \E.            *)
(***************************************************************************)
EXTENDS Naturals, Sequences, FiniteSets, TLC

(* ------------------------------ bounds --------------------------------- *)
MaxEntries == 2
MaxRemotes == 2
MaxBranches == 2
NumCommits == 3
MaxWalkErrors == 1

(* ------------------------- the file system ----------------------------- *)
\* What a directory entry is on disk.  "readerr" is an Err yielded by the
\* read_dir iterator itself; "gone" is an entry removed before it is looked at;
\* "link_*" is a symbolic link and what it points to.
EntryKinds == {"readerr", "gone", "file", "dir", "repo",
               "link_file", "link_dir", "link_repo", "link_none"}

IsSymlinkEntry(k) == k \in {"link_file", "link_dir", "link_repo", "link_none"}

\* std::path::Path::metadata() is fs::metadata(): it FOLLOWS symbolic links and
\* reports the type of what the link points to; a dangling link is an Err.
PathMetadata(k) ==
  CASE k \in {"file", "link_file"} -> "file"
    [] k \in {"dir", "repo", "link_dir", "link_repo"} -> "dir"
    [] OTHER -> "err"

\* Metadata::is_symlink() of the metadata obtained above.
MetadataIsSymlink(md) == md = "symlink"

\* Path::is_file() (follows links as well).
PathIsFile(k) == k \in {"file", "link_file"}

\* Repository::open(&path) succeeds when the path leads to a repository.
RepositoryOpenOk(k) == k \in {"repo", "link_repo"}

(* --------------------------- the Printer ------------------------------- *)
\* The log_* methods that begin with `if !self.verbose { return; }`.
VerboseOnly == {"entry", "entry_is_a_git_repo", "remote_fetch_succeeded",
                "branch_name", "branch_upstream_name",
                "branch_upstream_remote_name"}

\* Suppressed with the verbose test also put on log_remote_fetch_failed.
SuppressedFetchFailedToo(k, v) ==
  k \in (VerboseOnly \cup {"remote_fetch_failed"}) /\ ~v

\* Whether a log_<k> call returns without pushing.
Suppressed(k, v) == k \in VerboseOnly /\ ~v

\* The message msg_<k> makes; n is the remote or the branch it names (0 when
\* it names neither, <<branch, remote>> when it names both).
Msg(k, n) == [k |-> k, n |-> n]

\* One log_<k> call on a Printer whose verbose flag is v.
Log(msgs, m, v) == IF Suppressed(m.k, v) THEN msgs ELSE Append(msgs, m)

RECURSIVE LogAll(_, _, _)
LogAll(msgs, ms, v) ==
  IF ms = <<>> THEN msgs ELSE LogAll(Log(msgs, Head(ms), v), Tail(ms), v)

\* Flush that clears the messages without printing them.
FlushClearOnly(out, e, msgs) == out

\* Printer::flush: println! of every message in order; the lines written for
\* the Printer of entry e are identified by e and their position.
Flush(out, e, msgs) == out \o [i \in 1..Len(msgs) |-> [e |-> e, s |-> i]]

(* ----------------------- remote qualification -------------------------- *)
\* str::starts_with
StartsWith(s, p) == Len(s) >= Len(p) /\ SubSeq(s, 1, Len(p)) = p

\* Qualifies with the trailing "/" and ":" of the prefixes left out.
QualifiesHostOnly(url) ==
  StartsWith(url, "https://github.com") \/ StartsWith(url, "git@github.com")

\* line 313
Qualifies(url) ==
  StartsWith(url, "https://github.com/") \/ StartsWith(url, "git@github.com:")

UrlHeads == {"https://github.com/", "git@github.com:", "https://gitlab.com/",
             "HTTPS://github.com/", "https://GitHub.com/", "https://github.com",
             "http://github.com/", "git@github.com/", "Git@github.com:",
             "git@gitlab.com:", " https://github.com/", "ssh://git@github.com/",
             "https://www.github.com/", "", "h", "git@github.co"}
UrlTails == {"", "org/repo.git", "/org/repo.git", "m:org/repo.git"}
Urls == {h \o t : h \in UrlHeads, t \in UrlTails}

(* ------------------------- the commit graph ---------------------------- *)
Commits == 1..NumCommits

\* A commit graph: the parents of every commit; commits are numbered so that
\* parents come before children, which makes every graph acyclic.
Graphs == {g \in [Commits -> SUBSET Commits] :
             \A c \in Commits : \A p \in g[c] : p < c}

RECURSIVE Ancestors(_, _)
\* The commits reachable from c over parent edges, c included.
Ancestors(g, c) == {c} \cup UNION {Ancestors(g, p) : p \in g[c]}

RECURSIVE Descending(_)
Descending(S) ==
  IF S = {} THEN <<>>
  ELSE LET m == CHOOSE x \in S : \A y \in S : y <= x
       IN <<m>> \o Descending(S \ {m})

\* The items of a revwalk pushed with seed and sorted topologically: every
\* commit reachable from seed, children before parents.
Revwalk(g, seed) == Descending(Ancestors(g, seed))

\* What the revwalk iterator yields.  we = 0: the walk above, every item Ok.
\* Otherwise the backend fails after at - 1 items and yields n Err items.
WalkErrs == {[at |-> 0, n |-> 0]} \cup
            [at : 1..(NumCommits + 1), n : 1..MaxWalkErrors]

WalkItems(g, seed, we) ==
  LET w == Revwalk(g, seed)
  IN IF we.at = 0 \/ we.at > Len(w) + 1 THEN w
     ELSE SubSeq(w, 1, we.at - 1) \o [i \in 1..we.n |-> 0]

\* WalkAny that looks at the first item only.
WalkAnyFirstOnly(items, target) ==
  [found |-> items # <<>> /\ Head(items) = target, errs |-> 0]

RECURSIVE WalkAny(_, _)
\* revwalk.any(|oid| match oid { Ok(oid) => oid == target, Err => {log; false} }):
\* stops at the first item equal to target; every Err item met before that is
\* logged.  Item 0 is an Err.
WalkAny(items, target) ==
  IF items = <<>> THEN [found |-> FALSE, errs |-> 0]
  ELSE IF Head(items) = 0
       THEN LET r == WalkAny(Tail(items), target)
            IN [found |-> r.found, errs |-> r.errs + 1]
       ELSE IF Head(items) = target THEN [found |-> TRUE, errs |-> 0]
            ELSE WalkAny(Tail(items), target)

(* ---------------------- ancestry classification ------------------------ *)
\* Lines 444-479 for a branch named b, given what the backend does.  s1, s2:
\* whether revwalk()/set_sorting()/push() succeed for the first and the second
\* walk ("ok" or "err", an Err leaves handle_entry through `?`); w1, w2: what
\* revwalk.any() returns for the first and the second walk and how many Err
\* items it logged.  walks counts the repo.revwalk() calls made; errs lists
\* the backend errors met, in order, by the call that returned them.
AncestryReport(b, s1, s2, w1, w2) ==
  LET e1 == [i \in 1..w1.errs |-> Msg("general_branch_error", b)]
      e2 == [i \in 1..w2.errs |-> Msg("general_branch_error", b)]
      x1 == [i \in 1..w1.errs |-> "walk"]
      x2 == [i \in 1..w2.errs |-> "walk"]
  IN IF s1 = "err"
     THEN [logs |-> <<>>, end |-> "err", walks |-> 1, status |-> "Propagated",
           errs |-> <<"revwalk_setup">>]
     ELSE IF w1.found
     THEN [logs |-> e1 \o <<Msg("branch_is_synced", b)>>, end |-> "continue",
           walks |-> 1, status |-> "Synced", errs |-> x1]
     ELSE IF s2 = "err"
     THEN [logs |-> e1, end |-> "err", walks |-> 2, status |-> "Propagated",
           errs |-> x1 \o <<"revwalk_setup">>]
     ELSE IF w2.found
     THEN [logs |-> e1 \o e2 \o <<Msg("local_branch_ahead_of_upstream", b)>>,
           end |-> "continue", walks |-> 2, status |-> "AheadOfUpstream",
           errs |-> x1 \o x2]
     ELSE [logs |-> e1 \o e2 \o
                    <<Msg("local_branch_not_found_in_remote_ancestor", b)>>,
           end |-> "continue", walks |-> 2, status |-> "Diverged",
           errs |-> x1 \o x2]

\* Lines 444-479 on the commit graph g with local commit L (branch_oid) and
\* upstream commit U (upstream_oid): the first walk starts at U and looks for
\* L, the second starts at L and looks for U.  we1, we2: the errors the two
\* walks yield.
AncestryCheck(b, g, L, U, s1, s2, we1, we2) ==
  AncestryReport(b, s1, s2, WalkAny(WalkItems(g, U, we1), L),
                            WalkAny(WalkItems(g, L, we2), U))

\* What revwalk.any() can return on g from seed looking for target, over the
\* errors the walk may yield.
WalkResults(g, seed, target) ==
  {WalkAny(WalkItems(g, seed, we), target) : we \in WalkErrs}

\* Every way lines 444-479 can go, over all graphs, commits and backend
\* failures (the branch name is filled in by the caller).
AncestryOutcomes ==
  UNION {
    {AncestryReport(0, s1, s2, w1, w2) :
       s1 \in {"ok", "err"}, s2 \in {"ok", "err"},
       w1 \in WalkResults(c.g, c.U, c.L), w2 \in WalkResults(c.g, c.L, c.U)}
    : c \in [g : Graphs, L : Commits, U : Commits]}

(* ------------------------------ state ---------------------------------- *)
VARIABLES
  pc,        \* where main() is
  verbose,   \* args.verbose
  key,       \* the ssh private key path: "nohome", "missing", "dir", "file"
  dir,       \* the repositories directory: "nocwd", "unreadable", "ok"
  nEntries,  \* how many items fs::read_dir yields
  idx,       \* how many of them the for loop has taken
  entry,     \* what the current entry is on disk (EntryKinds, "none" before)
  messages,  \* printer.messages of the current Printer
  calls,     \* every log_* call made on the current Printer, pushed or not
  output,    \* the lines written to stdout
  exit,      \* "running", "ok" (Ok(())), "error" (main returned Err), "panic"
  opened,    \* Repository::open was called on the current entry
  nRemotes,  \* repo.remotes(): the remotes are 1..nRemotes
  ri,        \* remotes the first loop has looked at
  rinfo,     \* what the first loop found for each of them
  qualifying_remotes,
  fi,        \* qualifying remotes the fetch loop has looked at
  fetches,   \* the remote.fetch() calls made, in order, and how each ended
  synced_remotes,
  nBranches, \* repo.branches(Local): the branches are 1..nBranches
  bi,        \* branches the branch loop has taken
  audit,     \* what happened to the last branch taken
  caught,    \* the backend errors met while handling the current entry
  probe      \* input and result of a single function applied on its own

vars == <<pc, verbose, key, dir, nEntries, idx, entry, messages, calls, output,
          exit, opened, nRemotes, ri, rinfo, qualifying_remotes, fi, fetches,
          synced_remotes, nBranches, bi, audit, caught, probe>>

envVars == <<verbose, key, dir, nEntries>>
repoVars == <<nRemotes, ri, rinfo, qualifying_remotes, fi, fetches,
              synced_remotes, nBranches, bi, audit>>

\* branch: the branch; up: what branch.upstream() answered ("unknown" when it
\* was not asked, "none" for Err, "some"); remote: the remote the upstream
\* belongs to once its name is known; walks: the repo.revwalk() calls made
\* for the branch; status: how the branch ended; logs: the log_* calls made
\* for the branch, in order.
NoAudit == [branch |-> 0, up |-> "unknown", remote |-> 0, walks |-> 0,
            status |-> "None", logs |-> <<>>]
NoProbe == [f |-> "none"]

\* The locals of handle_entry before it has run.
FreshRepo ==
  /\ nRemotes' = 0 /\ ri' = 0 /\ rinfo' = <<>> /\ qualifying_remotes' = <<>>
  /\ fi' = 0 /\ fetches' = <<>> /\ synced_remotes' = <<>>
  /\ nBranches' = 0 /\ bi' = 0 /\ audit' = NoAudit

Init ==
  /\ pc = "start"
  /\ verbose \in BOOLEAN
  /\ key \in {"nohome", "missing", "dir", "file"}
  /\ dir \in {"nocwd", "unreadable", "ok"}
  /\ nEntries \in 0..MaxEntries
  /\ idx = 0 /\ entry = "none"
  /\ messages = <<>> /\ calls = <<>> /\ output = <<>>
  /\ exit = "running" /\ opened = FALSE
  /\ nRemotes = 0 /\ ri = 0 /\ rinfo = <<>> /\ qualifying_remotes = <<>>
  /\ fi = 0 /\ fetches = <<>> /\ synced_remotes = <<>>
  /\ nBranches = 0 /\ bi = 0 /\ audit = NoAudit
  /\ caught = <<>>
  /\ probe = NoProbe

(* ----------------------------- main() ---------------------------------- *)
\* PreflightOk without the ensure!(is_file()) of line 235.
PreflightOkNoIsFile(k, d) == d = "ok" /\ k \in {"file", "dir"}

\* Lines 222-239: whether every `?` and the ensure! before the loop pass.
PreflightOk(k, d) == d = "ok" /\ k = "file"

\* Lines 220-239.  println!("{:?}", args) comes first; then the directory and
\* the key path are resolved, the key is checked to be a file and the
\* directory is opened; any failure makes main return Err.
Preflight ==
  /\ pc = "start"
  /\ output' = Append(output, [e |-> 0, s |-> 1])
  /\ IF PreflightOk(key, dir)
     THEN pc' = "loop" /\ exit' = exit
     ELSE pc' = "aborted" /\ exit' = "error"
  /\ UNCHANGED <<envVars, idx, entry, messages, calls, opened, repoVars,
                 caught, probe>>

\* The end of one iteration of the for loop: the Printer goes out of scope,
\* Drop calls flush.
EndIteration(e, ms, cs) ==
  /\ output' = Flush(output, e, ms)
  /\ messages' = <<>>
  /\ calls' = cs
  /\ pc' = "loop"
  /\ exit' = exit

GeneralEntryError == Msg("general_entry_error", 0)

\* Return that drops the propagated error without logging it.
ReturnSilent(res, ms, cs) == EndIteration(idx, ms, cs)

\* Lines 484-487 and the end of the iteration, for handle_entry returning res
\* ("ok" or "err") with the messages ms logged so far.
Return(res, ms, cs) ==
  IF res = "err"
  THEN EndIteration(idx, Log(ms, GeneralEntryError, verbose),
                    Append(cs, GeneralEntryError))
  ELSE EndIteration(idx, ms, cs)

\* A panic (an unwrap() of None or Err): the stack unwinds, the Printer is
\* dropped and flushes, the process ends.
Panic(ms, cs) ==
  /\ output' = Flush(output, idx, ms)
  /\ messages' = <<>>
  /\ calls' = cs
  /\ pc' = "panicked"
  /\ exit' = "panic"

\* Lines 238-251: the iterator yields an item.
NextEntry ==
  /\ pc = "loop" /\ idx < nEntries
  /\ idx' = idx + 1
  /\ opened' = FALSE
  /\ FreshRepo
  /\ \E k \in EntryKinds :
       /\ entry' = k
       /\ IF k = "readerr"
          THEN /\ EndIteration(idx + 1, Log(<<>>, GeneralEntryError, verbose),
                               <<GeneralEntryError>>)
               /\ caught' = <<"read_dir">>
          ELSE /\ messages' = Log(<<>>, Msg("entry", 0), verbose)
               /\ calls' = <<Msg("entry", 0)>>
               /\ pc' = "entry"
               /\ caught' = <<>>
               /\ UNCHANGED <<output, exit>>
  /\ UNCHANGED <<envVars, probe>>

\* Line 489: the iterator is exhausted.
Finish ==
  /\ pc = "loop" /\ idx = nEntries
  /\ pc' = "done" /\ exit' = "ok"
  /\ UNCHANGED <<envVars, idx, entry, messages, calls, output, opened,
                 repoVars, caught, probe>>

\* Lines 262-287: classify the entry, open it, list its remotes.
HandleEntry ==
  /\ pc = "entry"
  /\ LET md == PathMetadata(entry) IN
     IF md = "err"
     THEN /\ Return("err", messages, calls)
          /\ caught' = Append(caught, "metadata")
          /\ UNCHANGED <<opened, repoVars>>
     ELSE IF MetadataIsSymlink(md)
     THEN /\ Return("ok", Log(messages, Msg("symlink", 0), verbose),
                    Append(calls, Msg("symlink", 0)))
          /\ UNCHANGED <<opened, repoVars, caught>>
     ELSE IF PathIsFile(entry)
     THEN /\ Return("ok", Log(messages, Msg("file", 0), verbose),
                    Append(calls, Msg("file", 0)))
          /\ UNCHANGED <<opened, repoVars, caught>>
     ELSE /\ opened' = TRUE
          /\ IF ~RepositoryOpenOk(entry)
             THEN /\ Return("ok", Log(messages, Msg("nongit_dir", 0), verbose),
                            Append(calls, Msg("nongit_dir", 0)))
                  /\ caught' = Append(caught, "open")
                  /\ UNCHANGED repoVars
             ELSE LET ms == Log(messages, Msg("entry_is_a_git_repo", 0), verbose)
                      cs == Append(calls, Msg("entry_is_a_git_repo", 0))
                  IN \/ /\ Return("err", ms, cs)      \* repo.remotes()?
                        /\ caught' = Append(caught, "remotes")
                        /\ UNCHANGED repoVars
                     \/ \E n \in 0..MaxRemotes :
                          /\ nRemotes' = n
                          /\ messages' = ms /\ calls' = cs
                          /\ pc' = "remotes"
                          /\ UNCHANGED <<output, exit, ri, rinfo,
                                         qualifying_remotes, fi, fetches,
                                         synced_remotes, nBranches, bi, audit,
                                         caught>>
  /\ UNCHANGED <<envVars, idx, entry, probe>>

(* ------------------------- the remote loop ----------------------------- *)
\* RemoteLook that pushes the remote whatever its URL is.
RemoteLookPushAll(i, f, u) ==
  CASE f = "badname"  -> [info |-> "badname", push |-> FALSE,
                          logs |-> <<Msg("remote_bad_name", i)>>]
    [] f = "notfound" -> [info |-> "notfound", push |-> FALSE,
                          logs |-> <<Msg("remote_not_found", i)>>]
    [] f = "nourl"    -> [info |-> "nourl", push |-> FALSE,
                          logs |-> <<Msg("remote_bad_url", i)>>]
    [] OTHER -> IF Qualifies(u)
                THEN [info |-> "qualifying", push |-> TRUE, logs |-> <<>>]
                ELSE [info |-> "unqualified", push |-> TRUE,
                      logs |-> <<Msg("unqualified_remote", i)>>]

\* Lines 289-318 for one remote: what the loop finds and what it logs.
\* f: "badname" (the name is not UTF-8), "notfound" (find_remote fails),
\* "nourl" (url() is None) or "url" with the URL u.
\* push: whether the remote is pushed to qualifying_remotes.
RemoteLook(i, f, u) ==
  CASE f = "badname"  -> [info |-> "badname", push |-> FALSE,
                          logs |-> <<Msg("remote_bad_name", i)>>]
    [] f = "notfound" -> [info |-> "notfound", push |-> FALSE,
                          logs |-> <<Msg("remote_not_found", i)>>]
    [] f = "nourl"    -> [info |-> "nourl", push |-> FALSE,
                          logs |-> <<Msg("remote_bad_url", i)>>]
    [] OTHER -> IF Qualifies(u)
                THEN [info |-> "qualifying", push |-> TRUE, logs |-> <<>>]
                ELSE [info |-> "unqualified", push |-> FALSE,
                      logs |-> <<Msg("unqualified_remote", i)>>]

RemoteLooks(i) ==
  {RemoteLook(i, f, "") : f \in {"badname", "notfound", "nourl"}}
    \cup {RemoteLook(i, "url", u) : u \in Urls}

RemoteStep ==
  /\ pc = "remotes" /\ ri < nRemotes
  /\ ri' = ri + 1
  /\ \E r \in RemoteLooks(ri + 1) :
       /\ rinfo' = Append(rinfo, r.info)
       /\ qualifying_remotes' = IF r.push
                                THEN Append(qualifying_remotes, ri + 1)
                                ELSE qualifying_remotes
       /\ messages' = LogAll(messages, r.logs, verbose)
       /\ calls' = calls \o r.logs
       /\ caught' = IF r.info = "notfound" THEN Append(caught, "find_remote")
                                           ELSE caught
  /\ UNCHANGED <<pc, envVars, idx, entry, output, exit, opened, nRemotes, fi,
                 fetches, synced_remotes, nBranches, bi, audit, probe>>

\* The first loop is over; line 322 starts iterating qualifying_remotes.
RemotesDone ==
  /\ pc = "remotes" /\ ri = nRemotes
  /\ pc' = "fetch"
  /\ UNCHANGED <<envVars, idx, entry, messages, calls, output, exit, opened,
                 repoVars, caught, probe>>

\* Lines 322-349 for one qualifying remote.  remote.name() is the name the
\* remote was found under at line 297.
FetchStep ==
  /\ pc = "fetch" /\ fi < Len(qualifying_remotes)
  /\ fi' = fi + 1
  /\ LET r == qualifying_remotes[fi + 1] IN
     \E ok \in BOOLEAN :
       /\ fetches' = Append(fetches, [r |-> r, ok |-> ok])
       /\ synced_remotes' = IF ok THEN Append(synced_remotes, r)
                                  ELSE synced_remotes
       /\ caught' = IF ok THEN caught ELSE Append(caught, "fetch")
       /\ LET m == IF ok THEN Msg("remote_fetch_succeeded", r)
                         ELSE Msg("remote_fetch_failed", r)
          IN /\ messages' = Log(messages, m, verbose)
             /\ calls' = Append(calls, m)
  /\ UNCHANGED <<pc, envVars, idx, entry, output, exit, opened, nRemotes, ri,
                 rinfo, qualifying_remotes, nBranches, bi, audit, probe>>

\* Line 356: repo.branches(Some(Local))?
FetchDone ==
  /\ pc = "fetch" /\ fi = Len(qualifying_remotes)
  /\ \/ /\ Return("err", messages, calls)
        /\ caught' = Append(caught, "branches")
        /\ UNCHANGED nBranches
     \/ \E n \in 0..MaxBranches :
          /\ nBranches' = n
          /\ pc' = "branches"
          /\ UNCHANGED <<messages, calls, output, exit, caught>>
  /\ UNCHANGED <<envVars, idx, entry, opened, nRemotes, ri, rinfo,
                 qualifying_remotes, fi, fetches, synced_remotes, bi, audit,
                 probe>>

(* ------------------------- the branch loop ----------------------------- *)
InSeq(x, s) == \E i \in 1..Len(s) : s[i] = x

\* HasSyncedRemote that accepts every remote.
HasSyncedRemoteAlways(synced, remote_name) == TRUE

\* Line 418.
HasSyncedRemote(synced, remote_name) == InSeq(remote_name, synced)

\* What lines 358-479 do for one branch: the log_* calls made, how the body
\* is left, the backend errors met (by the call that returned them), and the
\* record kept of the branch.
Outcome(b, logs, end, up, remote, walks, status, errs) ==
  [logs |-> logs, end |-> end, errs |-> errs,
   audit |-> [branch |-> b, up |-> up, remote |-> remote, walks |-> walks,
              status |-> status, logs |-> logs]]

\* UpstreamErr that logs nothing and goes on to the ancestry check.
UpstreamErrFallsThrough(b, bn) ==
  Outcome(b, bn, "walk", "none", 0, 0, "None", <<"upstream">>)

\* Lines 377-383: branch.upstream() is Err.
UpstreamErr(b, bn) ==
  Outcome(b, bn \o <<Msg("local_branch_has_no_remote_tracking_branch", b)>>,
          "continue", "none", 0, 0, "NoUpstream", <<"upstream">>)

\* Lines 358-442 for branch b, up to the point where it either is done with
\* (continue, `?` or a panic) or goes on to the ancestry check ("walk").
\* Every way the backend can answer, in the order the code asks.
BranchPrelude(b, info, synced) ==
  LET bn == <<Msg("branch_name", b)>>
      un == bn \o <<Msg("branch_upstream_name", b)>>
  IN
  \* 358: branch?
  {Outcome(b, <<>>, "err", "unknown", 0, 0, "Propagated", <<"branch_item">>)}
  \* 367-376: branch.name() is Err
  \cup {Outcome(b, <<Msg("branch_name_error", b)>>, "continue", "unknown", 0,
                0, "NameUnresolvable", <<"branch_name">>)}
  \* 377-383: branch.upstream() is Err
  \cup {UpstreamErr(b, bn)}
  \* 392-396: the upstream's name is not UTF-8; name_bytes().unwrap()
  \cup {Outcome(b, bn \o <<Msg("branch_bad_name", b)>>, "continue", "some", 0, 0,
                "NameUnresolvable", <<>>),
        Outcome(b, bn, "panic", "some", 0, 0, "Panicked", <<>>)}
  \* 397-400: the upstream's name() is Err
  \cup {Outcome(b, bn \o <<Msg("branch_name_error", b)>>, "continue", "some", 0, 0,
                "NameUnresolvable", <<"upstream_name">>)}
  \* 413-416: repo.branch_remote_name() is Err
  \cup {Outcome(b, un \o <<Msg("general_branch_error", b)>>, "continue", "some", 0,
                0, "Error", <<"branch_remote_name">>)}
  \* 402-442: the upstream belongs to remote r of the repository
  \cup UNION {
       IF info[r] = "badname"
       THEN \* 408-411: its name is not UTF-8
            {Outcome(b, un \o <<Msg("remote_bad_name", 0)>>, "continue", "some", 0,
                     0, "NameUnresolvable", <<>>)}
       ELSE LET rn == un \o <<Msg("branch_upstream_remote_name", <<b, r>>)>> IN
            IF ~HasSyncedRemote(synced, r)
            THEN \* 421-424
                 {Outcome(b, rn \o <<Msg("branch_remote_not_fetched", <<b, r>>)>>,
                          "continue", "some", r, 0, "UpstreamRemoteNotSynced",
                          <<>>)}
            ELSE \* 427-433, 435-441: resolve() of either reference is Err
                 {Outcome(b, rn \o <<Msg("general_branch_error", b)>>,
                          "continue", "some", r, 0, "Error", <<"resolve">>),
                  \* 434, 442: target().unwrap() of a reference with no target
                  Outcome(b, rn, "panic", "some", r, 0, "Panicked", <<>>),
                  \* both commits are known
                  Outcome(b, rn, "walk", "some", r, 0, "None", <<>>)}
       : r \in 1..Len(info)}

\* Lines 358-479 for branch b: the prelude, followed by the ancestry check
\* where the prelude reaches it.
BranchBody(b, info, synced) ==
  LET pre == BranchPrelude(b, info, synced) IN
  {o \in pre : o.end # "walk"}
  \cup UNION {
       {Outcome(b,
                o.logs \o [i \in 1..Len(a.logs) |-> Msg(a.logs[i].k, b)],
                a.end, o.audit.up, o.audit.remote, a.walks, a.status,
                o.errs \o a.errs)
          : a \in AncestryOutcomes}
       : o \in {o \in pre : o.end = "walk"}}

BranchStep ==
  /\ pc = "branches" /\ bi < nBranches
  /\ bi' = bi + 1
  /\ \E o \in BranchBody(bi + 1, rinfo, synced_remotes) :
       /\ audit' = o.audit
       /\ caught' = caught \o o.errs
       /\ LET ms == LogAll(messages, o.logs, verbose)
              cs == calls \o o.logs
          IN CASE o.end = "continue" ->
                    /\ messages' = ms /\ calls' = cs
                    /\ UNCHANGED <<pc, output, exit>>
               [] o.end = "err" -> Return("err", ms, cs)
               [] o.end = "panic" -> Panic(ms, cs)
  /\ UNCHANGED <<envVars, idx, entry, opened, nRemotes, ri, rinfo,
                 qualifying_remotes, fi, fetches, synced_remotes, nBranches,
                 probe>>

\* Line 482: the branch loop is over, handle_entry returns Ok(()).
BranchesDone ==
  /\ pc = "branches" /\ bi = nBranches
  /\ Return("ok", messages, calls)
  /\ UNCHANGED <<envVars, idx, entry, opened, repoVars, caught, probe>>

Next ==
  \/ Preflight
  \/ NextEntry
  \/ Finish
  \/ HandleEntry
  \/ RemoteStep
  \/ RemotesDone
  \/ FetchStep
  \/ FetchDone
  \/ BranchStep
  \/ BranchesDone

Spec == Init /\ [][Next]_vars

TypeOK ==
  /\ pc \in {"start", "aborted", "loop", "entry", "remotes", "fetch",
             "branches", "done", "panicked"}
  /\ idx \in 0..nEntries
  /\ ri \in 0..nRemotes /\ Len(rinfo) = ri
  /\ fi \in 0..Len(qualifying_remotes)
  /\ bi \in 0..nBranches

(* ------------------ single functions applied on their own -------------- *)
\* The rest of the state while one function is applied to drawn inputs.
Idle ==
  /\ pc = "probe"
  /\ verbose = FALSE /\ key = "file" /\ dir = "ok" /\ nEntries = 0
  /\ idx = 0 /\ entry = "none"
  /\ messages = <<>> /\ calls = <<>> /\ output = <<>>
  /\ exit = "running" /\ opened = FALSE
  /\ nRemotes = 0 /\ ri = 0 /\ rinfo = <<>> /\ qualifying_remotes = <<>>
  /\ fi = 0 /\ fetches = <<>> /\ synced_remotes = <<>>
  /\ nBranches = 0 /\ bi = 0 /\ audit = NoAudit
  /\ caught = <<>>

mainVars == <<pc, envVars, idx, entry, messages, calls, output, exit, opened,
              repoVars, caught>>

NoWalkErr == [at |-> 0, n |-> 0]

\* The ancestry check of lines 444-479 on a commit graph g with local commit L
\* and upstream commit U, the backend walking the graph without failure.
InitAncestry ==
  /\ Idle
  /\ \E g \in Graphs, L \in Commits, U \in Commits :
       probe = [f |-> "ancestry", g |-> g, L |-> L, U |-> U, done |-> FALSE,
                status |-> "None", walks |-> 0, logs |-> <<>>]

ProbeAncestry ==
  /\ probe.f = "ancestry" /\ ~probe.done
  /\ LET r == AncestryCheck(1, probe.g, probe.L, probe.U, "ok", "ok",
                            NoWalkErr, NoWalkErr)
     IN probe' = [probe EXCEPT !.done = TRUE, !.status = r.status,
                               !.walks = r.walks, !.logs = r.logs]
  /\ UNCHANGED mainVars

SpecAncestry == InitAncestry /\ [][ProbeAncestry]_vars

\* The url test of lines 304-317 on a URL.
InitQualify ==
  /\ Idle
  /\ \E u \in Urls :
       probe = [f |-> "qualify", url |-> u, done |-> FALSE, info |-> "none",
                push |-> FALSE]

ProbeQualify ==
  /\ probe.f = "qualify" /\ ~probe.done
  /\ LET r == RemoteLook(1, "url", probe.url)
     IN probe' = [probe EXCEPT !.done = TRUE, !.info = r.info,
                               !.push = r.push]
  /\ UNCHANGED mainVars

SpecQualify == InitQualify /\ [][ProbeQualify]_vars

(* ------------------------------ claims --------------------------------- *)
HasCall(k) == \E i \in 1..Len(calls) : calls[i].k = k
HasCallFor(k, n) == \E i \in 1..Len(calls) : calls[i] = Msg(k, n)
LastCall == IF calls = <<>> THEN Msg("none", 0) ELSE calls[Len(calls)]

\* The current entry has been handled to its end.
EntryOver == idx >= 1 /\ pc \in {"loop", "done", "panicked"}

\* b is reachable from a over parent edges (a = b included): there is a path.
Reaches(g, a, b) ==
  \E n \in 1..NumCommits : \E p \in [1..n -> Commits] :
    /\ p[1] = a /\ p[n] = b
    /\ \A i \in 1..(n - 1) : p[i + 1] \in g[p[i]]

\* C1: over every commit graph and every local commit L and upstream commit U,
\* the branch is reported Synced iff L is reachable from U (L = U included),
\* otherwise AheadOfUpstream iff U is reachable from L, otherwise Diverged;
\* exactly the matching message is logged.
C1_AncestryClassification ==
  (probe.f = "ancestry" /\ probe.done) =>
    LET sy == Reaches(probe.g, probe.U, probe.L)
        ah == Reaches(probe.g, probe.L, probe.U)
        want == IF sy THEN "Synced"
                ELSE IF ah THEN "AheadOfUpstream" ELSE "Diverged"
        msg == CASE want = "Synced" -> "branch_is_synced"
                 [] want = "AheadOfUpstream" -> "local_branch_ahead_of_upstream"
                 [] OTHER -> "local_branch_not_found_in_remote_ancestor"
    IN /\ probe.status = want
       /\ probe.logs = <<Msg(msg, 1)>>

\* C1 witness: two commits with a common ancestor, neither containing the
\* other, reported Diverged.
C1_Witness ==
  /\ probe.f = "ancestry" /\ probe.done
  /\ probe.status = "Diverged"
  /\ \E c \in Commits : /\ Reaches(probe.g, probe.L, c)
                        /\ Reaches(probe.g, probe.U, c)

\* The remote r qualified and its fetch succeeded while handling this entry.
FetchedOk(r) ==
  /\ r \in 1..Len(rinfo) /\ rinfo[r] = "qualifying"
  /\ \E i \in 1..Len(fetches) : fetches[i] = [r |-> r, ok |-> TRUE]

\* C2: a revwalk is started for a branch only if it has an upstream whose
\* remote qualified and was fetched successfully during this entry; a branch
\* whose upstream's remote was not is reported UpstreamRemoteNotSynced and
\* no revwalk is started for it.
C2_WalkOnlyIfRemoteSynced ==
  /\ audit.walks > 0 => (audit.up = "some" /\ FetchedOk(audit.remote))
  /\ (audit.remote # 0 /\ ~FetchedOk(audit.remote)) =>
       /\ audit.status = "UpstreamRemoteNotSynced"
       /\ audit.walks = 0
       /\ HasCallFor("branch_remote_not_fetched", <<audit.branch, audit.remote>>)
       /\ ~HasCallFor("branch_is_synced", audit.branch)
       /\ ~HasCallFor("local_branch_ahead_of_upstream", audit.branch)
       /\ ~HasCallFor("local_branch_not_found_in_remote_ancestor", audit.branch)
       /\ ~HasCallFor("general_branch_error", audit.branch)

\* C2 witness: a branch whose upstream's remote failed to fetch, reported
\* UpstreamRemoteNotSynced, in a repository where another remote was synced.
C2_Witness ==
  /\ audit.status = "UpstreamRemoteNotSynced"
  /\ \E i \in 1..Len(fetches) : fetches[i] = [r |-> audit.remote, ok |-> FALSE]
  /\ synced_remotes # <<>>

\* C3: a branch whose upstream() is absent is reported NoUpstream and no
\* revwalk is started for it.
C3_NoUpstream ==
  audit.up = "none" =>
    /\ audit.status = "NoUpstream"
    /\ audit.walks = 0
    /\ LastCall = Msg("local_branch_has_no_remote_tracking_branch", audit.branch)

\* C3 witness: a branch without upstream in a repository with a synced remote.
C3_Witness ==
  /\ audit.up = "none" /\ audit.status = "NoUpstream"
  /\ synced_remotes # <<>>

\* C4: an entry that is a symbolic link is never opened as a repository, and
\* once handled it has been diagnosed as a symlink.
C4_SymlinkSkipped ==
  IsSymlinkEntry(entry) =>
    /\ ~opened
    /\ EntryOver => HasCall("symlink")

\* C5: no failure while handling an entry ends the scan: once the pre-flight
\* checks have passed, the run ends only after every entry was handled, and it
\* ends normally.
C5_ScanCompletes ==
  (PreflightOk(key, dir) /\ exit # "running") =>
    (exit = "ok" /\ idx = nEntries)

\* The messages pushed on the current Printer.
Recorded == SelectSeq(calls, LAMBDA m : ~Suppressed(m.k, verbose))

LinesOf(e) == SelectSeq(output, LAMBDA l : l.e = e)

\* C6: the messages of an entry are written exactly once, in the order they
\* were recorded, when the handling of the entry ends and before the next
\* entry is taken, whichever way it ends; lines of different entries are never
\* interleaved.
C6_FlushPerEntry ==
  /\ \A i \in 1..(Len(output) - 1) :
       \/ output[i + 1].e = output[i].e /\ output[i + 1].s = output[i].s + 1
       \/ output[i + 1].e > output[i].e /\ output[i + 1].s = 1
  /\ pc \in {"entry", "remotes", "fetch", "branches"} =>
       (messages = Recorded /\ LinesOf(idx) = <<>>)
  /\ (idx >= 1 /\ pc \in {"loop", "done"}) =>
       /\ messages = <<>>
       /\ LinesOf(idx) = [i \in 1..Len(Recorded) |-> [e |-> idx, s |-> i]]
  /\ \A l \in 1..Len(output) : output[l].e <= idx

\* C6 witness: a second entry whose handling ended on a propagated error has
\* its lines after those of the first.
C6_Witness ==
  /\ idx = 2 /\ pc = "loop"
  /\ LastCall = GeneralEntryError /\ Len(calls) >= 2
  /\ LinesOf(1) # <<>> /\ LinesOf(2) # <<>>

\* The strings a URL of Urls can end with.
UrlSuffixes ==
  {""} \cup UNION {{SubSeq(u, k, Len(u)) : k \in 1..Len(u)} : u \in Urls}

\* u is p followed by some string.
BeginsWith(u, p) == \E t \in UrlSuffixes : u = p \o t

\* C7: a remote qualifies iff its URL begins with "https://github.com/" or
\* "git@github.com:", exactly as written.
C7_Qualification ==
  (probe.f = "qualify" /\ probe.done) =>
    /\ probe.push <=> (\/ BeginsWith(probe.url, "https://github.com/")
                       \/ BeginsWith(probe.url, "git@github.com:"))
    /\ probe.url \in {"https://github.com/org/repo.git",
                      "git@github.com:org/repo.git"} => probe.push
    /\ probe.url = "https://gitlab.com/org/repo.git" => ~probe.push
    /\ probe.url \in {"HTTPS://github.com/org/repo.git",
                      "https://GitHub.com/org/repo.git",
                      "https://github.com"} => ~probe.push

\* C7 witness: the ssh form of a GitHub URL qualifies.
C7_Witness ==
  /\ probe.f = "qualify" /\ probe.done
  /\ probe.url = "git@github.com:org/repo.git" /\ probe.push

\* C8: when the key path does not exist or is not a regular file, or the
\* directory cannot be read, the run ends with an error before any entry is
\* handled: nothing is classified, opened, fetched or logged.
C8_PreflightAborts ==
  (key \in {"missing", "dir"} \/ dir = "unreadable") =>
    /\ pc \in {"start", "aborted"}
    /\ pc = "aborted" => exit = "error"
    /\ exit \in {"running", "error"}
    /\ idx = 0 /\ entry = "none" /\ ~opened
    /\ fetches = <<>> /\ calls = <<>> /\ messages = <<>>
    /\ \A l \in 1..Len(output) : output[l].e = 0

\* C8 witness: the key path is a directory, the repositories directory is
\* readable and holds entries, and the run has ended.
C8_Witness ==
  /\ pc = "aborted" /\ exit = "error"
  /\ key = "dir" /\ dir = "ok" /\ nEntries > 0

\* The informational messages.
InfoKinds == {"entry", "entry_is_a_git_repo", "remote_fetch_succeeded",
              "branch_name", "branch_upstream_name",
              "branch_upstream_remote_name"}

NotInfo(ms) == SelectSeq(ms, LAMBDA m : m.k \notin InfoKinds)

\* C9: with verbose off no informational message is recorded or written, and
\* every other message is recorded and written, verbose or not.
C9_Verbosity ==
  /\ ~verbose => \A i \in 1..Len(messages) : messages[i].k \notin InfoKinds
  /\ pc \in {"entry", "remotes", "fetch", "branches"} =>
       /\ NotInfo(messages) = NotInfo(calls)
       /\ messages = IF verbose THEN calls ELSE NotInfo(calls)
  /\ EntryOver =>
       Len(LinesOf(idx)) = IF verbose THEN Len(calls) ELSE Len(NotInfo(calls))

\* C9 witness: verbose is off, a remote was synced and another failed, and the
\* entry has been written.
C9_Witness ==
  /\ ~verbose /\ EntryOver
  /\ HasCall("remote_fetch_succeeded") /\ HasCall("remote_fetch_failed")
  /\ Len(LinesOf(idx)) = Len(NotInfo(calls))
  /\ Len(calls) > Len(NotInfo(calls))

FetchesOf(r) == SelectSeq(fetches, LAMBDA f : f.r = r)

\* C10: only qualifying remotes are fetched, each at most once and, when the
\* remote loops are over, exactly once, whatever happened to the other
\* remotes; every remote left out is diagnosed; synced_remotes is the
\* qualifying remotes whose fetch succeeded.
C10_FetchEachQualifying ==
  /\ \A i \in 1..Len(fetches) :
       /\ fetches[i].r \in 1..Len(rinfo)
       /\ rinfo[fetches[i].r] = "qualifying"
       /\ Len(FetchesOf(fetches[i].r)) = 1
       /\ ~fetches[i].ok => HasCallFor("remote_fetch_failed", fetches[i].r)
  /\ \A r \in 1..Len(rinfo) :
       /\ rinfo[r] = "badname" => HasCallFor("remote_bad_name", r)
       /\ rinfo[r] = "notfound" => HasCallFor("remote_not_found", r)
       /\ rinfo[r] = "nourl" => HasCallFor("remote_bad_url", r)
       /\ rinfo[r] = "unqualified" => HasCallFor("unqualified_remote", r)
  /\ \A r \in 1..MaxRemotes : InSeq(r, synced_remotes) <=> FetchedOk(r)
  /\ (pc = "branches" \/ EntryOver) =>
       /\ Len(rinfo) = nRemotes
       /\ \A r \in 1..nRemotes :
            rinfo[r] = "qualifying" => Len(FetchesOf(r)) = 1

\* C10 witness: the first remote's fetch failed, the second remote was fetched
\* all the same and is the only synced one.
C10_Witness ==
  /\ pc = "branches"
  /\ fetches = <<[r |-> 1, ok |-> FALSE], [r |-> 2, ok |-> TRUE]>>
  /\ synced_remotes = <<2>>

\* The diagnostic each error site logs: the log_* call in the arm that
\* catches the error.
DiagOf(site) ==
  CASE site \in {"read_dir", "metadata", "remotes", "branches", "branch_item",
                 "revwalk_setup"} -> "general_entry_error"
    [] site = "open" -> "nongit_dir"
    [] site = "find_remote" -> "remote_not_found"
    [] site = "fetch" -> "remote_fetch_failed"
    [] site \in {"branch_name", "upstream_name"} -> "branch_name_error"
    [] site = "upstream" -> "local_branch_has_no_remote_tracking_branch"
    [] site \in {"branch_remote_name", "resolve", "walk"} ->
         "general_branch_error"

ErrorDiagKinds ==
  {"general_entry_error", "nongit_dir", "remote_not_found",
   "remote_fetch_failed", "branch_name_error",
   "local_branch_has_no_remote_tracking_branch", "general_branch_error"}

ErrorDiags(ms) == SelectSeq(ms, LAMBDA m : m.k \in ErrorDiagKinds)

Kinds(ms) == [i \in 1..Len(ms) |-> ms[i].k]

\* C11: the error diagnostics of an entry are, in order, one per error caught
\* while handling it, each the diagnostic of the arm that caught it: no error
\* goes without one, none gets two, whether verbose is on or off; they are on
\* the Printer while the entry is handled and written when it is over.
C11_OneDiagnosticPerError ==
  /\ Kinds(ErrorDiags(calls)) = [i \in 1..Len(caught) |-> DiagOf(caught[i])]
  /\ ErrorDiags(Recorded) = ErrorDiags(calls)
  /\ pc \in {"entry", "remotes", "fetch", "branches"} =>
       ErrorDiags(messages) = ErrorDiags(calls)
  /\ EntryOver => Len(LinesOf(idx)) >= Len(caught)

\* C11 witness: a remote lookup failed, the first walk of a branch yielded an
\* error, and setting up the second walk failed and was propagated: three
\* errors, three diagnostics, the entry written.
C11_Witness ==
  /\ EntryOver
  /\ caught = <<"find_remote", "walk", "revwalk_setup">>
  /\ Kinds(ErrorDiags(calls)) =
       <<"remote_not_found", "general_branch_error", "general_entry_error">>

\* The diagnostics that close a branch: the six statuses and the branch
\* error diagnostics.
OutcomeKinds ==
  {"branch_is_synced", "local_branch_ahead_of_upstream",
   "local_branch_not_found_in_remote_ancestor",
   "local_branch_has_no_remote_tracking_branch", "branch_remote_not_fetched",
   "branch_name_error", "branch_bad_name", "remote_bad_name",
   "general_branch_error"}

OutcomesOf(ms) == SelectSeq(ms, LAMBDA m : m.k \in OutcomeKinds)

\* C12: a branch gets at most one outcome diagnostic, a branch the loop is
\* done with gets exactly one, and it is the last thing done for the branch:
\* no branch error diagnostic is followed by Synced, AheadOfUpstream or
\* Diverged.
C12_OneTerminalStatus ==
  audit.branch # 0 =>
    /\ Len(OutcomesOf(audit.logs)) <= 1
    /\ audit.status \notin {"None", "Propagated", "Panicked"} =>
         /\ Len(OutcomesOf(audit.logs)) = 1
         /\ audit.logs[Len(audit.logs)].k \in OutcomeKinds

\* The backend errors that are none of the named recoverable cases: remote
\* listing, branch enumeration, reference resolution, revwalk setup, and an
\* error yielded by a walk.
UnexpectedSites ==
  {"remotes", "branches", "branch_item", "resolve", "revwalk_setup", "walk"}

UnexpectedCaught == \E i \in 1..Len(caught) : caught[i] \in UnexpectedSites

\* C13: once the backend has returned an unexpected error for an entry, the
\* last thing logged for the entry is a generic diagnostic (no status is
\* reported after it), the handling of the entry is over (no further branch
\* or remote is processed), and the scan goes on.
C13_UnexpectedAbandonsEntry ==
  UnexpectedCaught =>
    /\ LastCall.k \in {"general_entry_error", "general_branch_error"}
    /\ pc \in {"loop", "done"}
    /\ exit # "panic"

====
